---- MODULE Spec2Model ----
(***************************************************************************)
(* A model of the voidweaver dependency-injection container                *)
(* (src/src/container.di.ts), of the @Ref binding store                     *)
(* (src/unnamed/part_000, ref.decorator) and of ProxyFactory.execute.       *)
(*                                                                         *)
(* JavaScript values are records tagged by the field k.  Identifiers        *)
(* (symbols and classes) are strings.  Object identity of a constructed     *)
(* instance is its field id; an id is allocated by `new` and is distinct    *)
(* from the id of every instance that is still referenced.                  *)
(***************************************************************************)
EXTENDS Integers, Sequences, FiniteSets, TLC

VARIABLES
  services,          \* container -> (identifier -> stored descriptor), the Map of each DIContainer
  refMetadataStore,  \* class -> sequence of RefMetadata, the WeakMap of ref.decorator
  held,              \* the instance the caller has kept from an earlier resolve (or Null)
  pending,           \* redirected calls suspended on their classRef promise
  explicit,          \* history: container -> the identifiers of Tracked that register or registerMock stored
  last               \* the operation that ran last, its outcome and its trace

vars == <<services, refMetadataStore, held, pending, explicit, last>>

(***************************************************************************)
(* Bounds of the model.                                                     *)
(***************************************************************************)
MaxCalls == 2
\* the bindings attached to one class after the container is in use
MaxLate == 1

(***************************************************************************)
(* The universe: one symbol, the classes of a small dependency graph.       *)
(***************************************************************************)
Symbols == {"Env"}
Classes == {"Leaf", "Config", "Service", "Plain", "Broken", "Fragile", "Outer",
            "Facade", "Gateway", "Loop", "Twice", "Report", "Risky"}
Ids == Symbols \cup Classes
Containers == {"A", "B"}
Inputs == {"x", "bad"}
\* the identifiers whose registration history is recorded
Tracked == {"Leaf", "Env"}

IsSymbol(id) == id \in Symbols

\* static DEPS of a class; Plain declares none
HasDepsArray(id) == id \in Classes \ {"Plain"}

DEPS(c) ==
  CASE c = "Leaf"    -> <<>>
    [] c = "Config"  -> <<"Env", "Leaf">>
    [] c = "Service" -> <<"Env", "Leaf", "Config">>
    [] c = "Broken"  -> <<>>
    [] c = "Fragile" -> <<"Broken", "Leaf">>
    [] c = "Outer"   -> <<"Leaf", "Fragile", "Leaf">>
    [] c = "Facade"  -> <<>>
    [] c = "Gateway" -> <<>>
    [] c = "Loop"    -> <<>>
    [] c = "Twice"   -> <<>>
    [] c = "Report"  -> <<"Env">>
    [] c = "Risky"   -> <<>>
    [] OTHER         -> <<>>

\* the constructor body of Broken throws
CtorThrows(c) == c = "Broken"

\* callable members declared on the prototype of a class
Methods(c) ==
  CASE c = "Leaf"    -> {"foo", "bar", "baz", "execute"}
    [] c = "Config"  -> {"execute", "describe"}
    [] c = "Service" -> {"describe"}
    [] c = "Facade"  -> {"foo", "baz", "nul", "qux", "thr", "own"}
    [] c = "Gateway" -> {"cfg", "leaf"}
    [] c = "Loop"    -> {"spin", "leaf"}
    [] c = "Twice"   -> {"dup", "other"}
    [] c = "Report"  -> {"execute"}
    [] c = "Risky"   -> {"cyc", "thr", "nul", "bar", "gone"}
    [] OTHER         -> {}

(***************************************************************************)
(* Values.                                                                  *)
(***************************************************************************)
Null == [k |-> "null"]
Undef == [k |-> "undefined"]
Obj(n) == [k |-> "obj", n |-> n]
Cls(c) == [k |-> "class", c |-> c]
Sym(s) == [k |-> "symbol", s |-> s]
Self(id) == IF IsSymbol(id) THEN Sym(id) ELSE Cls(id)

\* mutant: every stored descriptor passes the check
Truthy_Always(v) == TRUE

\* JavaScript truthiness of a stored descriptor
Truthy(v) == v.k \notin {"null", "undefined"}

TokenValues == {Obj("dev"), Null, Undef}
MockValues == {Obj("mock"), Undef}
\* overlay objects: a plain one and one that holds a reference to itself
OverlayValues == {Obj("mock"), Obj("cyclic")}

\* JSON.stringify(service) throws a TypeError on a cyclic structure
StringifyThrows(v) == v = Obj("cyclic")
SerializationError == "Converting circular structure to JSON"

RECURSIVE IdsOf(_)
RECURSIVE IdsOfSeq(_)
\* the identities of the instances reachable from a value
IdsOf(v) ==
  IF v.k = "inst" THEN {v.id} \cup IdsOfSeq(v.args) ELSE {}
IdsOfSeq(s) ==
  IF s = <<>> THEN {} ELSE IdsOf(Head(s)) \cup IdsOfSeq(Tail(s))

(***************************************************************************)
(* The registry: a Map from identifier to stored descriptor.                *)
(***************************************************************************)
Has(svc, id) == id \in DOMAIN svc
\* mutant: an entry that exists is kept
Set_KeepsExisting(svc, id, v) ==
  [x \in DOMAIN svc \cup {id} |-> IF x \in DOMAIN svc THEN svc[x] ELSE v]
Set(svc, id, v) == [x \in DOMAIN svc \cup {id} |-> IF x = id THEN v ELSE svc[x]]
EmptyMap == [x \in {} |-> Null]

\* mutant: the check of DEPS is missing
ArrayIsArrayDEPS_Missing(id) == TRUE

\* Array.isArray(constructor?.DEPS)
ArrayIsArrayDEPS(id) == HasDepsArray(id)

\* the result of a synchronous call: a returned value or a thrown error,
\* together with the registry the call leaves behind
Returned(svc, v) == [kind |-> "return", val |-> v, err |-> "", svc |-> svc]
Thrown(svc, e) == [kind |-> "throw", val |-> Undef, err |-> e, svc |-> svc]

\* DIContainer.registerMock
RegisterMockOp(svc, id, val) ==
  IF ~ArrayIsArrayDEPS(id)
  THEN Thrown(svc, "Class has no static property DEPS")
  ELSE Returned(Set(svc, id, val), Undef)

\* DIContainer.register
RegisterOp(svc, id, val) ==
  IF IsSymbol(id)
  THEN Returned(Set(svc, id, val), Undef)
  ELSE IF ~ArrayIsArrayDEPS(id)
       THEN Thrown(svc, "Class has no static property DEPS")
       ELSE Returned(Set(svc, id, Cls(id)), Undef)

\* mutant: clear forgets the classes and keeps the tokens
ClearOp_KeepsTokens(svc) ==
  Returned([x \in {y \in DOMAIN svc : IsSymbol(y)} |-> svc[x]], Undef)

\* DIContainer.clear
ClearOp(svc) == Returned(EmptyMap, Undef)

(***************************************************************************)
(* The binding store of ref.decorator.                                      *)
(***************************************************************************)
\* a classRef thunk: how its result arrives and what it yields
Thunk(mode, yields) == [mode |-> mode, yields |-> yields]
\* what a classRef whose body throws yields
Throws == [k |-> "throws"]
\* what a classRef yields whose body throws an error that refers to itself
ThrowsCyclic == [k |-> "throws", cyclic |-> TRUE]
\* what Ref(classRef, targetMethodName) pushes; "" is an absent targetMethodName
RefMetadata(classRef, methodName, targetMethodName) ==
  [classRef |-> classRef, methodName |-> methodName,
   targetMethodName |-> targetMethodName]

\* the decorators of class Facade, in the order they are applied
FacadeRefs ==
  << RefMetadata(Thunk("sync", Cls("Leaf")), "foo", "bar"),
     RefMetadata(Thunk("async", Cls("Leaf")), "baz", ""),
     RefMetadata(Thunk("sync", Null), "nul", ""),
     RefMetadata(Thunk("sync", Cls("Leaf")), "qux", ""),
     RefMetadata(Thunk("sync", Throws), "thr", "") >>

\* the decorators of class Gateway: both targets are loaded lazily, and one
\* of them has dependencies of its own
GatewayRefs ==
  << RefMetadata(Thunk("async", Cls("Config")), "cfg", "describe"),
     RefMetadata(Thunk("async", Cls("Leaf")), "leaf", "bar") >>

\* the decorators of class Loop: the target of spin is Loop itself, whose
\* member spin is bound again
LoopRefs ==
  << RefMetadata(Thunk("async", Cls("Loop")), "spin", ""),
     RefMetadata(Thunk("async", Cls("Leaf")), "leaf", "bar") >>

\* the decorators of class Twice: dup is bound twice, to different target
\* methods
TwiceRefs ==
  << RefMetadata(Thunk("sync", Cls("Leaf")), "dup", "foo"),
     RefMetadata(Thunk("sync", Cls("Leaf")), "other", "bar"),
     RefMetadata(Thunk("sync", Cls("Leaf")), "dup", "baz") >>

\* the decorators of class Risky: one binding for each way a redirected call
\* can fail
RiskyRefs ==
  << RefMetadata(Thunk("sync", ThrowsCyclic), "cyc", ""),
     RefMetadata(Thunk("sync", Throws), "thr", ""),
     RefMetadata(Thunk("sync", Null), "nul", ""),
     RefMetadata(Thunk("async", Cls("Leaf")), "bar", ""),
     RefMetadata(Thunk("sync", Cls("Leaf")), "gone", "") >>

\* Ref: push one entry on the list of the decorated class
Ref(store, class, meta) ==
  [c \in DOMAIN store \cup {class} |->
     IF c = class
     THEN Append(IF class \in DOMAIN store THEN store[class] ELSE <<>>, meta)
     ELSE store[c]]

RECURSIVE Decorate(_, _, _)
\* the decorators of a class definition run one after the other
Decorate(store, class, refs) ==
  IF refs = <<>> THEN store
  ELSE Decorate(Ref(store, class, Head(refs)), class, Tail(refs))

\* getRefMetadata
getRefMetadata(store, class) ==
  IF class \in DOMAIN store THEN store[class] ELSE <<>>

\* mutant: the first entry of a name is kept
refMethodsMap_FirstWins(refs) ==
  [n \in {refs[i].methodName : i \in DOMAIN refs} |->
     LET is == {i \in DOMAIN refs : refs[i].methodName = n}
     IN refs[CHOOSE i \in is : \A j \in is : i <= j]]

\* new Map(refMetadata.map(ref => [ref.methodName, ref])): a later entry wins
refMethodsMap(refs) ==
  [n \in {refs[i].methodName : i \in DOMAIN refs} |->
     LET is == {i \in DOMAIN refs : refs[i].methodName = n}
     IN refs[CHOOSE i \in is : \A j \in is : j <= i]]

(***************************************************************************)
(* resolve.  A resolution threads a context through its recursive calls:    *)
(* the registry, the identities in use, the binding store, the container    *)
(* and the trace of what it did.                                            *)
(***************************************************************************)
\* d is the nesting depth of the resolve call the event belongs to
Event(e, id, val, args) == [e |-> e, id |-> id, val |-> val, args |-> args, d |-> 0]
Emit(st, ev) == [st EXCEPT !.log = Append(@, [ev EXCEPT !.d = st.depth])]

Ok(st, v) == [kind |-> "return", val |-> v, err |-> "", st |-> st]
Fail(st, e) == [kind |-> "throw", val |-> Undef, err |-> e, st |-> st]
\* a return of resolve, traced with the value returned
Return(st, id, v) == Ok(Emit(st, Event("resolved", id, v, <<>>)), v)

\* mutant: a symbol takes the path of a class
TokenFastPath_Never(svc, id) == FALSE

\* this.services.has(constructor) && typeof constructor === 'symbol'
TokenFastPath(svc, id) == Has(svc, id) /\ IsSymbol(id)

\* mutant: a root miss auto-registers like a nested one
MissReturnsNull_Never(isFirstExecution) == FALSE

\* mutant: a nested miss returns null like a root one
MissReturnsNull_Always(isFirstExecution) == TRUE

\* on a miss: if (isFirstExecution) return null
MissReturnsNull(isFirstExecution) == isFirstExecution

\* on a nested miss: this.services.set(constructor, constructor)
AutoRegister(svc, id) == Set(svc, id, Self(id))

\* mutant: the arguments are passed in the opposite order
Spread_Reversed(params) == [i \in DOMAIN params |-> params[Len(params) + 1 - i]]

\* ...(params as never[]): the resolved dependencies as positional arguments
Spread(params) == params

\* mutant: one cached object instead of a new one
FreshId_Cached(used) == 1

\* the identity `new` gives an object: one no referenced object has
FreshId(used) == CHOOSE n \in 1..(Cardinality(used) + 1) : n \notin used

\* (service as Class)?.DEPS?.map(...) ?? [] : the list that is mapped over
DepsOf(service) ==
  IF service.k = "class" /\ HasDepsArray(service.c) THEN DEPS(service.c) ELSE <<>>

\* mutant: the stored descriptor is never returned as it is
MockShortcut_Never(service, useMocked, isFirstExecution) == FALSE

\* if (!isFirstExecution && useMocked) return service
MockShortcut(service, useMocked, isFirstExecution) ==
  ~isFirstExecution /\ useMocked

\* mutant: the instance is returned as constructed
Wrap_Never(st, class, id, params) ==
  [k |-> "inst", c |-> class, id |-> id, args |-> params, cont |-> st.cont,
   proxy |-> FALSE, refs |-> EmptyMap]

\* the instance resolve returns: wrapped in a Proxy when the class has bindings
Wrap(st, class, id, params) ==
  LET refMetadata == getRefMetadata(st.store, class)
  IN [k |-> "inst", c |-> class, id |-> id, args |-> params, cont |-> st.cont,
      proxy |-> Len(refMetadata) > 0,
      refs |-> IF Len(refMetadata) > 0 THEN refMethodsMap(refMetadata) ELSE EmptyMap]

\* mutant: reading the bindings of a class empties its list
AfterGetRefMetadata_Consumed(store, class) ==
  [c \in DOMAIN store |-> IF c = class THEN <<>> ELSE store[c]]

\* getRefMetadata hands out the stored array and createProxyWithRefs maps
\* over it into a new Map: the store is as it was
AfterGetRefMetadata(store, class) == store

\* the try block of resolve: new service(...params), then the Proxy wrapping
Construct(st, id, service, params) ==
  IF service.k # "class" /\ StringifyThrows(service)
  THEN \* not a constructor: TypeError, caught; the handler computes
       \* errorText first, and JSON.stringify throws out of the handler
       Fail(Emit(st, Event("notctor", id, service, Spread(params))),
            SerializationError)
  ELSE IF service.k # "class"
  THEN \* not a constructor: TypeError, caught, logged, rethrown
       Fail(Emit(Emit(st, Event("notctor", id, service, Spread(params))),
                 Event("logerror", id, service, Spread(params))),
            "Unable to resolve service")
  ELSE IF CtorThrows(service.c)
  THEN Fail(Emit(Emit(st, Event("new", service.c, Undef, Spread(params))),
                 Event("logerror", id, service, Spread(params))),
            "Unable to resolve service")
  ELSE LET n == FreshId(st.used)
           inst == Wrap(st, service.c, n, Spread(params))
       IN Return([Emit(st, Event("new", service.c, inst, Spread(params)))
                    EXCEPT !.used = @ \cup {n},
                           !.store = AfterGetRefMetadata(@, service.c)],
                 id, inst)

\* an exception thrown by a nested resolve leaves the map over DEPS and the
\* enclosing resolve, which has no handler around the map
Propagates(r) == r.kind = "throw"

RECURSIVE Resolve(_, _, _, _)
RECURSIVE ResolveDeps(_, _, _, _)

\* DIContainer.resolve(constructor, useMocked, isFirstExecution)
Resolve(st, id, useMocked, isFirstExecution) ==
  LET st0 == Emit(st, Event("resolve", id,
                            [k |-> "flags", useMocked |-> useMocked,
                             isFirst |-> isFirstExecution], <<>>))
  IN IF TokenFastPath(st0.svc, id)
     THEN Return(st0, id, st0.svc[id])
     ELSE IF ~Has(st0.svc, id) /\ MissReturnsNull(isFirstExecution)
     THEN Return(st0, id, Null)
     ELSE LET st1 == IF ~Has(st0.svc, id)
                     THEN [st0 EXCEPT !.svc = AutoRegister(@, id)]
                     ELSE st0
              service == st1.svc[id]
          IN IF ~Truthy(service)
             THEN Return(st1, id, Null)
             ELSE IF MockShortcut(service, useMocked, isFirstExecution)
             THEN Return(st1, id, service)
             ELSE LET pr == ResolveDeps([st1 EXCEPT !.depth = @ + 1],
                                        DepsOf(service), useMocked, <<>>)
                  IN IF Propagates(pr)
                     THEN [pr EXCEPT !.st.depth = st.depth]
                     ELSE Construct([pr.st EXCEPT !.depth = st.depth],
                                    id, service, pr.val)

\* the map over DEPS: left to right, each with isFirstExecution = false
ResolveDeps(st, deps, useMocked, acc) ==
  IF deps = <<>>
  THEN Ok(st, acc)
  ELSE LET r == Resolve(st, Head(deps), useMocked, FALSE)
       IN IF Propagates(r)
          THEN r
          ELSE ResolveDeps(r.st, Tail(deps), useMocked, Append(acc, r.val))

(***************************************************************************)
(* Methods of the classes of the universe.                                  *)
(***************************************************************************)
RECURSIVE Shape(_)
RECURSIVE ShapeSeq(_)
\* a value without the identities of the instances in it
Shape(v) ==
  IF v.k = "inst"
  THEN [k |-> "inst", c |-> v.c, args |-> ShapeSeq(v.args), proxy |-> v.proxy]
  ELSE v
ShapeSeq(s) ==
  IF s = <<>> THEN <<>> ELSE <<Shape(Head(s))>> \o ShapeSeq(Tail(s))

Fulfilled(st, v) == [kind |-> "fulfilled", val |-> v, err |-> "", st |-> st]
Rejected(st, e) == [kind |-> "rejected", val |-> Undef, err |-> e, st |-> st]

\* the placeholder body of a decorated method and the body of a method that
\* rejects its input throw; every other body returns a value computed from
\* the input and from what the constructor was given
BodyThrows(c, m, arg) ==
  \/ c = "Facade" /\ m \in {"foo", "baz", "nul", "qux", "thr"}
  \/ c = "Gateway" /\ m \in {"cfg", "leaf"}
  \/ c = "Loop" /\ m \in {"spin", "leaf"}
  \/ c = "Twice" /\ m \in {"dup", "other"}
  \/ c = "Risky"
  \/ c = "Leaf" /\ m = "bar" /\ arg = "bad"

MethodBody(st, inst, m, arg) ==
  LET st1 == Emit(st, Event("call", m, inst, <<Obj(arg)>>))
  IN IF BodyThrows(inst.c, m, arg)
     THEN Rejected(st1, "Error in " \o m)
     ELSE Fulfilled(st1, [k |-> "result", c |-> inst.c, m |-> m, arg |-> arg,
                          deps |-> ShapeSeq(inst.args)])

(***************************************************************************)
(* The Proxy of createProxyWithRefs.                                        *)
(***************************************************************************)
\* target[prop]: the member of the underlying instance
TargetMember(inst, prop) ==
  IF prop \in Methods(inst.c)
  THEN [k |-> "method", c |-> inst.c, m |-> prop]
  ELSE IF prop = "dep" /\ Len(inst.args) > 0
  THEN inst.args[1]
  ELSE Undef

\* mutant: every method of the class is intercepted
ProxyGet_AllMethods(inst, prop) ==
  IF prop \in DOMAIN inst.refs \/ prop \in Methods(inst.c)
  THEN [k |-> "redirector", c |-> inst.c, m |-> prop]
  ELSE TargetMember(inst, prop)

\* mutant: the trap hands out the member of the underlying instance
ProxyGet_Never(inst, prop) == TargetMember(inst, prop)

\* the get trap
ProxyGet(inst, prop) ==
  IF prop \in DOMAIN inst.refs
  THEN [k |-> "redirector", c |-> inst.c, m |-> prop]
  ELSE TargetMember(inst, prop)

\* member access on a resolved instance, wrapped or not
Member(inst, prop) ==
  IF inst.proxy THEN ProxyGet(inst, prop) ELSE TargetMember(inst, prop)

\* mutant: the target method name of the binding is ignored
EffectiveMethodName_Source(refConfig, prop) == prop

\* mutant: only the target method name of the binding counts
EffectiveMethodName_Target(refConfig, prop) == refConfig.targetMethodName

\* refConfig.targetMethodName || prop
EffectiveMethodName(refConfig, prop) ==
  IF refConfig.targetMethodName # "" THEN refConfig.targetMethodName ELSE prop

\* mutant: whatever the member is, it is called
IsFunction_Always(member) == TRUE

\* typeof refInstance[methodName] === 'function'
IsFunction(member) == member.k \in {"method", "redirector"}

\* mutant: a missing class is passed over in silence
NoClassReturned_Silent(st, prop) == Fulfilled(st, Undef)

\* throw new Error(`No class returned from @Ref for method ${prop}`), caught,
\* logged and rethrown
NoClassReturned(st, prop) ==
  Rejected(Emit(st, Event("logerror", prop, Undef, <<>>)),
           "No class returned from @Ref")

\* mutant: the call goes on without evaluating the thunk
EvalThunk_Skipped(st, refConfig, prop) == st

\* mutant: the thunk is evaluated twice
EvalThunk_Twice(st, refConfig, prop) ==
  Emit(Emit(st, Event("thunk", prop, refConfig.classRef.yields, <<>>)),
       Event("thunk", prop, refConfig.classRef.yields, <<>>))

\* classRefFn(): the thunk runs
EvalThunk(st, refConfig, prop) ==
  Emit(st, Event("thunk", prop, refConfig.classRef.yields, <<>>))

\* classRefResult instanceof Promise
IsPromise(classRef) == classRef.mode = "async"

\* the call has not ended: its promise follows that of a redirected call on
\* inst, which is suspended on its own thunk
Chained(st, inst, prop) ==
  [kind |-> "chained", val |-> inst, err |-> prop, st |-> st]

\* mutant: the target is resolved in overlay mode
RedirectUseMocked_Overlay == TRUE

\* the useMocked argument of this.resolve(ReferencedClass, false, false)
RedirectUseMocked == FALSE

\* the redirected call from the point where the classRef result is known:
\* the check of the class, the resolve of the target, the choice of the
\* method name, the check of the member and its invocation; every throw is
\* caught, logged and rethrown as the rejection of the call
RECURSIVE RedirectFinish(_, _, _, _, _)
RedirectFinish(st, refConfig, prop, arg, ReferencedClass) ==
  IF ReferencedClass = ThrowsCyclic
  THEN \* Logger.error stringifies the error caught and throws out of the handler
       Rejected(st, SerializationError)
  ELSE IF ReferencedClass = Throws
  THEN Rejected(Emit(st, Event("logerror", prop, Undef, <<>>)), "Error in classRef")
  ELSE IF ~Truthy(ReferencedClass)
  THEN NoClassReturned(st, prop)
  ELSE LET r == Resolve(st, ReferencedClass.c, RedirectUseMocked, FALSE)
       IN IF r.kind = "throw"
          THEN Rejected(Emit(r.st, Event("logerror", prop, Undef, <<>>)), r.err)
          ELSE LET refInstance == r.val
                   methodName == EffectiveMethodName(refConfig, prop)
               IN IF refInstance.k # "inst"
                  THEN \* a property read on null
                       Rejected(Emit(r.st, Event("logerror", prop, Undef, <<>>)),
                                "TypeError")
                  ELSE IF ~IsFunction(Member(refInstance, methodName))
                  THEN Rejected(Emit(r.st, Event("logerror", prop, Undef, <<>>)),
                                "Method not found in referenced class")
                  ELSE IF Member(refInstance, methodName).k = "redirector"
                  THEN \* the member is the redirecting function of the target:
                       \* the promise it returns is returned as it is
                       LET inner == refInstance.refs[methodName]
                           st2 == EvalThunk(r.st, inner, methodName)
                       IN IF IsPromise(inner.classRef)
                          THEN Chained(st2, refInstance, methodName)
                          ELSE RedirectFinish(st2, inner, methodName, arg,
                                              inner.classRef.yields)
                  ELSE \* the methods are async: a rejection is returned, not caught
                       MethodBody(r.st, refInstance, methodName, arg)


\* ProxyFactory.execute: a root resolve of the command, then its execute
FactoryExecute(st, clazz, input) ==
  LET r == Resolve(st, clazz, FALSE, TRUE)
  IN IF r.kind = "throw"
     THEN Rejected(r.st, r.err)
     ELSE IF r.val.k # "inst"
     THEN Rejected(r.st, "TypeError")
     ELSE IF ~IsFunction(Member(r.val, "execute"))
     THEN Rejected(r.st, "TypeError")
     ELSE MethodBody(r.st, r.val, "execute", input)

(***************************************************************************)
(* State and actions.                                                       *)
(***************************************************************************)
Outcome(r) == [kind |-> r.kind, val |-> r.val, err |-> r.err]

\* the record of an operation; the actions fill in what applies
Op(op, c) ==
  [op |-> op, cont |-> c, id |-> "", val |-> Undef, useMocked |-> FALSE,
   isFirst |-> FALSE, prop |-> "", arg |-> "",
   out |-> [kind |-> "return", val |-> Undef, err |-> ""], log |-> <<>>]

LogIds(log) ==
  UNION {IdsOf(log[i].val) \cup IdsOfSeq(log[i].args) : i \in DOMAIN log}

\* the identities of the instances the state still refers to
LiveIds ==
  IdsOf(held) \cup IdsOf(last.out.val) \cup LogIds(last.log)
    \cup UNION {IdsOf(pending[i].inst) : i \in DOMAIN pending}

\* the context a call on container c starts with
Ctx(c) ==
  [svc |-> services[c], used |-> LiveIds, log |-> <<>>,
   store |-> refMetadataStore, cont |-> c, depth |-> 0]

\* the binding store when every class definition has been evaluated
DecoratedStore ==
       Decorate(
         Decorate(Decorate(Decorate(Decorate(EmptyMap, "Facade", FacadeRefs),
                                    "Gateway", GatewayRefs),
                           "Loop", LoopRefs),
                  "Twice", TwiceRefs),
         "Risky", RiskyRefs)

Init ==
  /\ services = [c \in Containers |-> EmptyMap]
  /\ refMetadataStore = DecoratedStore
  /\ held = Null
  /\ pending = <<>>
  /\ explicit = [c \in Containers |-> {}]
  /\ last = Op("init", "A")

\* `services` is a field of the instance: a write goes to the Map of the
\* container the method is called on
Store_Shared(c, svc) == [d \in Containers |-> svc]

Store(c, svc) == [services EXCEPT ![c] = svc]

\* container.register(id, val)
Register(c, id, val) ==
  /\ LET r == RegisterOp(services[c], id, val)
     IN /\ services' = Store(c, r.svc)
        /\ last' = [Op("register", c) EXCEPT !.id = id, !.val = val,
                                             !.out = Outcome(r)]
        /\ explicit' = [explicit EXCEPT ![c] =
                          IF r.kind = "return" THEN @ \cup ({id} \cap Tracked) ELSE @]
  /\ UNCHANGED <<refMetadataStore, held, pending>>

\* container.registerMock(id, val)
RegisterMock(c, id, val) ==
  /\ LET r == RegisterMockOp(services[c], id, val)
     IN /\ services' = Store(c, r.svc)
        /\ last' = [Op("registerMock", c) EXCEPT !.id = id, !.val = val,
                                                 !.out = Outcome(r)]
        /\ explicit' = [explicit EXCEPT ![c] =
                          IF r.kind = "return" THEN @ \cup ({id} \cap Tracked) ELSE @]
  /\ UNCHANGED <<refMetadataStore, held, pending>>

\* container.clear(); the record keeps the keys the registry had
Clear(c) ==
  /\ LET r == ClearOp(services[c])
     IN /\ services' = Store(c, r.svc)
        /\ last' = [Op("clear", c) EXCEPT
                      !.val = [k |-> "keys", ids |-> DOMAIN services[c]],
                      !.out = Outcome(r)]
  /\ UNCHANGED <<refMetadataStore, held, pending, explicit>>

\* Ref(classRef, targetMethodName)(class.prototype, methodName), applied
\* while the container is in use: one more entry on the list of the class
ApplyRef(class, meta) ==
  /\ Len(getRefMetadata(refMetadataStore, class))
       < Len(getRefMetadata(DecoratedStore, class)) + MaxLate
  /\ refMetadataStore' = Ref(refMetadataStore, class, meta)
  /\ last' = [Op("ref", "A") EXCEPT !.id = class, !.prop = meta.methodName]
  /\ UNCHANGED <<services, held, pending, explicit>>

\* container.resolve(id, useMocked, isFirstExecution)
ResolveCall(c, id, useMocked, isFirst) ==
  /\ LET r == Resolve(Ctx(c), id, useMocked, isFirst)
     IN /\ services' = Store(c, r.st.svc)
        /\ last' = [Op("resolve", c) EXCEPT !.id = id, !.useMocked = useMocked,
                                            !.isFirst = isFirst,
                                            !.out = Outcome(r), !.log = r.st.log]
        /\ refMetadataStore' = r.st.store
  /\ UNCHANGED <<held, pending, explicit>>

\* the caller keeps the wrapped instance a resolve has just returned, and
\* works with that one from then on
Keep ==
  /\ last.op = "resolve"
  /\ last.out.kind = "return"
  /\ last.out.val.k = "inst"
  /\ last.out.val.proxy
  /\ held = Null
  /\ held' = last.out.val
  /\ UNCHANGED <<services, refMetadataStore, pending, explicit, last>>

\* the caller reads held[prop]
GetMember(prop) ==
  /\ held.k = "inst"
  /\ last' = [Op("get", held.cont) EXCEPT !.prop = prop,
                                          !.out = [kind |-> "return",
                                                   val |-> Member(held, prop),
                                                   err |-> ""]]
  /\ UNCHANGED <<services, refMetadataStore, held, pending, explicit>>

\* the state of a promise that has not settled
NotYet == [kind |-> "pending", val |-> Undef, err |-> ""]

\* what the caller sees of a redirected call after a step of it
SettledOrPending(o) ==
  IF o.kind = "chained"
  THEN [kind |-> "pending", val |-> Undef, err |-> ""]
  ELSE Outcome(o)

\* the suspended call a chained call waits for; its trace starts with the
\* evaluation of its thunk
Suspended(o, arg) ==
  [op |-> "invoke", inst |-> o.val, prop |-> o.err, arg |-> arg, out |-> NotYet,
   log |-> <<o.st.log[Len(o.st.log)]>>]

\* the caller calls held[prop](arg), prop a bound method: the async function
\* runs to its first await, that is to its end when classRef is synchronous
InvokeBound(prop, arg) ==
  /\ held.k = "inst"
  /\ prop \in DOMAIN held.refs
  /\ LET refConfig == held.refs[prop]
         st == EvalThunk(Ctx(held.cont), refConfig, prop)
     IN IF IsPromise(refConfig.classRef)
        THEN /\ Len(pending) < MaxCalls
             /\ pending' = Append(pending, [op |-> "invoke", inst |-> held,
                                             prop |-> prop, arg |-> arg,
                                             out |-> NotYet, log |-> st.log])
             /\ last' = [Op("invoke", held.cont) EXCEPT
                           !.prop = prop, !.arg = arg, !.log = st.log, !.val = held,
                           !.out = [kind |-> "pending", val |-> Undef, err |-> ""]]
             /\ refMetadataStore' = st.store
             /\ UNCHANGED services
        ELSE LET o == RedirectFinish(st, refConfig, prop, arg, refConfig.classRef.yields)
             IN /\ services' = Store(held.cont, o.st.svc)
                /\ last' = [Op("invoke", held.cont) EXCEPT
                              !.prop = prop, !.arg = arg, !.log = o.st.log, !.val = held,
                              !.out = SettledOrPending(o)]
                /\ refMetadataStore' = o.st.store
                /\ IF o.kind = "chained"
                   THEN /\ Len(pending) < MaxCalls
                        /\ pending' = Append(pending, Suspended(o, arg))
                   ELSE UNCHANGED pending
  /\ UNCHANGED <<held, explicit>>

\* what a suspended call does when it runs on while the registry is svc;
\* its trace continues the one the call began with
ResumeOn(call, svc) ==
  RedirectFinish([Ctx(call.inst.cont) EXCEPT !.log = call.log, !.svc = svc],
                 call.inst.refs[call.prop], call.prop, call.arg,
                 call.inst.refs[call.prop].classRef.yields)

\* mutant: the call runs on without the entries of the registry
RegistryAtResume_Cleared(svc) == EmptyMap

\* this.services as the continuation after the await reads it
RegistryAtResume(svc) == svc

\* the classRef promise of a suspended call settles and the call runs on
ResumeCall(i) ==
  /\ i \in DOMAIN pending
  /\ pending[i].op = "invoke"
  /\ \E call \in {pending[i]} : \E o \in {ResumeOn(call, RegistryAtResume(services[call.inst.cont]))} :
        /\ services' = Store(call.inst.cont, o.st.svc)
        /\ last' = [Op("resume", call.inst.cont) EXCEPT
                      !.prop = call.prop, !.arg = call.arg, !.log = o.st.log,
                      !.val = call.inst, !.out = SettledOrPending(o)]
        /\ refMetadataStore' = o.st.store
        /\ pending' = IF o.kind = "chained"
                      THEN [pending EXCEPT ![i] = Suspended(o, call.arg)]
                      ELSE [j \in 1..(Len(pending) - 1) |->
                              IF j < i THEN pending[j] ELSE pending[j + 1]]
  /\ UNCHANGED <<held, explicit>>

\* execute got as far as calling the command's execute: its result is awaited
ExecuteAwaits(o) == \E i \in DOMAIN o.st.log : o.st.log[i].e = "call"

\* new ProxyFactory(container).execute(clazz, input), up to its await: the
\* resolve and the call of the command's execute run at once; a throw before
\* the await rejects the promise the call returns, otherwise the promise is
\* pending when the call returns
Execute(c, clazz, input) ==
  /\ LET o == FactoryExecute(Ctx(c), clazz, input)
     IN /\ services' = Store(c, o.st.svc)
        /\ refMetadataStore' = o.st.store
        /\ IF ExecuteAwaits(o)
           THEN /\ Len(pending) < MaxCalls
                /\ pending' = Append(pending,
                                [op |-> "execute",
                                 inst |-> o.st.log[CHOOSE i \in DOMAIN o.st.log :
                                                     o.st.log[i].e = "call"].val,
                                 prop |-> "execute", arg |-> input,
                                 out |-> Outcome(o), log |-> o.st.log])
                /\ last' = [Op("execute", c) EXCEPT !.id = clazz, !.arg = input,
                                                    !.out = NotYet, !.log = o.st.log]
           ELSE /\ UNCHANGED pending
                /\ last' = [Op("execute", c) EXCEPT !.id = clazz, !.arg = input,
                                                    !.out = Outcome(o), !.log = o.st.log]
  /\ UNCHANGED <<held, explicit>>

\* the promise the command's execute returned settles, and with it the
\* promise of ProxyFactory.execute
SettleExecute(i) ==
  /\ i \in DOMAIN pending
  /\ pending[i].op = "execute"
  /\ last' = [Op("settle", pending[i].inst.cont) EXCEPT
                !.id = pending[i].inst.c, !.arg = pending[i].arg,
                !.val = pending[i].inst, !.out = pending[i].out,
                !.log = pending[i].log]
  /\ pending' = [j \in 1..(Len(pending) - 1) |->
                   IF j < i THEN pending[j] ELSE pending[j + 1]]
  /\ UNCHANGED <<services, refMetadataStore, held, explicit>>

Props == {"foo", "baz", "nul", "qux", "thr", "own", "dep", "zzz"}

CoreIds == {"Env", "Leaf", "Config", "Service", "Plain"}

\* a script that awaits the promise of each execute before its next call
Next ==
  \/ /\ pending = <<>>
     /\ \E id \in CoreIds : \E val \in (IF IsSymbol(id) THEN TokenValues ELSE {Undef}) :
          Register("A", id, val)
  \/ pending = <<>> /\ \E id \in CoreIds : \E val \in MockValues : RegisterMock("A", id, val)
  \/ pending = <<>> /\ Clear("A")
  \/ /\ pending = <<>>
     /\ \E id \in CoreIds : \E useMocked \in BOOLEAN : \E isFirst \in BOOLEAN :
          ResolveCall("A", id, useMocked, isFirst)
  \/ /\ pending = <<>>
     /\ \E clazz \in CoreIds \ Symbols : \E input \in Inputs : Execute("A", clazz, input)
  \/ \E i \in 1..MaxCalls : SettleExecute(i)

Spec == Init /\ [][Next]_vars

RefIds == {"Leaf", "Facade"}

NextRef ==
  \/ \E id \in RefIds : \E val \in (IF IsSymbol(id) THEN TokenValues ELSE {Undef}) :
       Register("A", id, val)
  \/ \E id \in RefIds : \E val \in MockValues : RegisterMock("A", id, val)
  \/ Clear("A")
  \/ \E id \in RefIds : \E useMocked \in BOOLEAN : \E isFirst \in BOOLEAN :
       ResolveCall("A", id, useMocked, isFirst)
  \/ Keep
  \/ \E prop \in Props : GetMember(prop)
  \/ \E prop \in Props : \E arg \in Inputs : InvokeBound(prop, arg)
  \/ \E i \in 1..MaxCalls : ResumeCall(i)

SpecRef == Init /\ [][NextRef]_vars

\* a dependency graph with a constructor that throws two levels down
FailIds == {"Leaf", "Broken", "Fragile", "Outer"}

NextFail ==
  \/ \E id \in FailIds : Register("A", id, Undef)
  \/ \E id \in FailIds : \E val \in MockValues \cup OverlayValues :
       RegisterMock("A", id, val)
  \/ Clear("A")
  \/ \E id \in FailIds : \E useMocked \in BOOLEAN : \E isFirst \in BOOLEAN :
       ResolveCall("A", id, useMocked, isFirst)

SpecFail == Init /\ [][NextFail]_vars

\* concurrent redirected calls: the caller sets the container up, keeps a
\* wrapped Gateway and starts calls on it; while calls are suspended the only
\* steps are further calls and resumptions, in any order
ConcIds == {"Env", "Gateway"}
ConcProps == {"cfg", "leaf"}

NextConc ==
  \/ /\ pending = <<>>
     /\ \E id \in ConcIds :
          \E val \in (IF IsSymbol(id) THEN {Obj("dev")} ELSE {Undef}) :
            Register("A", id, val)
  \/ pending = <<>> /\ Clear("A")
  \/ pending = <<>> /\ ResolveCall("A", "Gateway", FALSE, TRUE)
  \/ Keep
  \/ \E prop \in ConcProps : \E arg \in Inputs : InvokeBound(prop, arg)
  \/ \E i \in 1..MaxCalls : ResumeCall(i)

SpecConc == Init /\ [][NextConc]_vars

\* a script that awaits each redirected call on a wrapped Loop before it does
\* anything else; a suspended call runs on when its thunk has settled, which
\* the event loop makes happen
LoopIds == {"Loop", "Leaf"}
LoopProps == {"spin", "leaf"}

ResumeAny == \E i \in 1..MaxCalls : ResumeCall(i)

NextLoop ==
  \/ pending = <<>> /\ \E id \in LoopIds : Register("A", id, Undef)
  \/ pending = <<>> /\ Clear("A")
  \/ pending = <<>> /\ \E id \in LoopIds : \E isFirst \in BOOLEAN : ResolveCall("A", id, FALSE, isFirst)
  \/ pending = <<>> /\ Keep
  \/ pending = <<>> /\ \E prop \in LoopProps : \E arg \in Inputs : InvokeBound(prop, arg)
  \/ ResumeAny

SpecLoop == Init /\ [][NextLoop]_vars /\ WF_vars(ResumeAny)

\* overlays of classes, one of them a dependency of the other
OverlayIds == {"Env", "Leaf", "Config"}

NextOverlay ==
  \/ \E id \in OverlayIds : Register("A", id, IF IsSymbol(id) THEN Obj("dev") ELSE Undef)
  \/ \E id \in OverlayIds \ Symbols : \E val \in OverlayValues : RegisterMock("A", id, val)
  \/ Clear("A")
  \/ \E id \in OverlayIds \ Symbols : \E useMocked \in BOOLEAN : \E isFirst \in BOOLEAN :
       ResolveCall("A", id, useMocked, isFirst)

SpecOverlay == Init /\ [][NextOverlay]_vars

\* commands run through a ProxyFactory; two of them depend on the same token
CmdIds == {"Env", "Config", "Report"}

NextCmd ==
  \/ \E id \in CmdIds : Register("A", id, IF IsSymbol(id) THEN Obj("dev") ELSE Undef)
  \/ Clear("A")
  \/ /\ pending = <<>>
     /\ \E clazz \in CmdIds \ Symbols : \E input \in Inputs : Execute("A", clazz, input)
  \/ \E i \in 1..MaxCalls : SettleExecute(i)

SpecCmd == Init /\ [][NextCmd]_vars

\* a class whose bindings fail in every way a redirected call can fail
RiskyIds == {"Leaf", "Risky"}
RiskyProps == {"cyc", "thr", "nul", "bar", "gone"}

NextRisky ==
  \/ \E id \in RiskyIds : Register("A", id, Undef)
  \/ \E val \in MockValues \cup OverlayValues : RegisterMock("A", "Leaf", val)
  \/ Clear("A")
  \/ \E id \in RiskyIds : \E isFirst \in BOOLEAN : ResolveCall("A", id, FALSE, isFirst)
  \/ Keep
  \/ \E prop \in RiskyProps : \E arg \in Inputs : InvokeBound(prop, arg)
  \/ \E i \in 1..MaxCalls : ResumeCall(i)

SpecRisky == Init /\ [][NextRisky]_vars

\* a token, a class without bindings and a class with bindings, each with
\* and without an overlay
WrapIds == {"Env", "Leaf", "Facade"}

NextWrap ==
  \/ \E id \in WrapIds : Register("A", id, IF IsSymbol(id) THEN Obj("dev") ELSE Undef)
  \/ \E id \in WrapIds \ Symbols : RegisterMock("A", id, Obj("mock"))
  \/ Clear("A")
  \/ \E id \in WrapIds : \E useMocked \in BOOLEAN : \E isFirst \in BOOLEAN :
       ResolveCall("A", id, useMocked, isFirst)

SpecWrap == Init /\ [][NextWrap]_vars

\* a class with two bindings of one source name
DupIds == {"Leaf", "Twice"}
DupProps == {"dup", "other"}

NextDup ==
  \/ \E id \in DupIds : Register("A", id, Undef)
  \/ Clear("A")
  \/ \E id \in DupIds : \E isFirst \in BOOLEAN : ResolveCall("A", id, FALSE, isFirst)
  \/ Keep
  \/ \E prop \in DupProps : \E arg \in Inputs : InvokeBound(prop, arg)

SpecDup == Init /\ [][NextDup]_vars

\* classes that get a binding after instances of them have been resolved:
\* Facade.own is bound to Leaf.bar, Leaf.baz to Config.describe
LateIds == {"Leaf", "Facade"}
LateProps == {"foo", "own", "baz"}
LateRefs ==
  { [class |-> "Facade",
     meta |-> RefMetadata(Thunk("sync", Cls("Leaf")), "own", "bar")],
    [class |-> "Leaf",
     meta |-> RefMetadata(Thunk("sync", Cls("Config")), "baz", "describe")] }

NextLate ==
  \/ \E id \in LateIds : Register("A", id, Undef)
  \/ Clear("A")
  \/ \E id \in LateIds : \E isFirst \in BOOLEAN : ResolveCall("A", id, FALSE, isFirst)
  \/ \E b \in LateRefs : ApplyRef(b.class, b.meta)
  \/ Keep
  \/ \E prop \in LateProps : GetMember(prop)
  \/ \E prop \in LateProps : \E arg \in Inputs : InvokeBound(prop, arg)
  \/ \E i \in 1..MaxCalls : ResumeCall(i)

SpecLate == Init /\ [][NextLate]_vars

\* two containers side by side, as in tests that build one per case
TwoIds == {"Leaf", "Config"}

NextTwo ==
  \/ \E c \in Containers : \E id \in TwoIds : Register(c, id, Undef)
  \/ \E c \in Containers : \E val \in MockValues : RegisterMock(c, "Leaf", val)
  \/ \E c \in Containers : Clear(c)
  \/ \E c \in Containers : \E id \in TwoIds : \E isFirst \in BOOLEAN :
       ResolveCall(c, id, FALSE, isFirst)

SpecTwo == Init /\ [][NextTwo]_vars

(***************************************************************************)
(* Claims.                                                                  *)
(***************************************************************************)
ConfigurationError == "Class has no static property DEPS"
ResolutionError == "Unable to resolve service"

Reg(c) == services[c]
IsRegistrationOf(l) == l.op \in {"register", "registerMock"}
News(log) == {i \in DOMAIN log : log[i].e = "new"}

\* C1: register(id) and registerMock(id, v) on a class that carries no
\* array-valued DEPS fail with ConfigurationError, and the failed call leaves
\* the registry as it was.
C1_RegisterWithoutDepsFails ==
  [][(IsRegistrationOf(last') /\ last'.id \in Classes /\ ~HasDepsArray(last'.id))
       => /\ last'.out.kind = "throw"
          /\ last'.out.err = ConfigurationError
          /\ services' = services]_vars

C1_Witness ==
  /\ last.op = "registerMock"
  /\ last.id = "Plain"
  /\ last.val = Obj("mock")
  /\ last.out.kind = "throw"
  /\ "Leaf" \in DOMAIN Reg("A")

\* C2 as stated: for an identifier never passed to register or registerMock,
\* resolve(id) at the root returns null, whatever ran before.
C2_NeverRegisteredIsNull ==
  (last.op = "resolve" /\ last.isFirst /\ last.id \in Tracked
     /\ last.id \notin explicit[last.cont])
    => (last.out.kind = "return" /\ last.out.val = Null)

\* C2, amended: for an identifier that is not a key of the registry when the
\* call is made, resolve(id) at the root returns null, whatever ran before.
C2_AbsentIsNullAtRoot ==
  [][(last'.op = "resolve" /\ last'.isFirst /\ last' # last
        /\ last'.id \notin DOMAIN services[last'.cont])
       => (last'.out.kind = "return" /\ last'.out.val = Null)]_vars

C2_Witness ==
  /\ last.op = "resolve"
  /\ last.isFirst
  /\ last.id = "Leaf"
  /\ last.out.val = Null
  /\ "Facade" \in DOMAIN Reg("A")
  /\ held # Null

\* the positions of T in the dependency list of Owner
Positions(Owner, T) == {i \in DOMAIN DEPS(Owner) : DEPS(Owner)[i] = T}

\* C3: with registerMock(T, mockValue), mockValue truthy, and a registered
\* Owner whose DEPS contain T, resolve(Owner, useMocked = true) calls the
\* constructor of Owner with mockValue itself in the position of T, and T is
\* not constructed during the call.
C3_MockInDependencySlot ==
  \A T \in Classes :
    (/\ last.op = "resolve" /\ last.useMocked /\ last.isFirst
     /\ last.id \in Classes
     /\ last.id \in DOMAIN Reg(last.cont)
     /\ Reg(last.cont)[last.id] = Cls(last.id)
     /\ Positions(last.id, T) # {}
     /\ T \in DOMAIN Reg(last.cont)
     /\ Reg(last.cont)[T] = Obj("mock"))
    => /\ \E j \in News(last.log) :
            /\ last.log[j].id = last.id
            /\ \A i \in Positions(last.id, T) : last.log[j].args[i] = Obj("mock")
       /\ \A j \in News(last.log) : last.log[j].id # T
       /\ \A j \in DOMAIN last.log : last.log[j].e = "notctor" => last.log[j].id # T

C3_Witness ==
  /\ last.op = "resolve" /\ last.useMocked /\ last.isFirst
  /\ last.id = "Service"
  /\ "Config" \in DOMAIN Reg("A")
  /\ Reg("A")["Config"] = Obj("mock")
  /\ last.out.kind = "return"
  /\ last.out.val.k = "inst"
  /\ last.out.val.args[3] = Obj("mock")

\* C4 as stated: in a resolve with useMocked = true, a dependency whose stored
\* descriptor is the class itself is still instantiated, so that the owner
\* receives an instance and never the class.
C4_OwnerNeverReceivesClass ==
  (last.op = "resolve" /\ last.useMocked)
    => \A j \in News(last.log) :
         \A i \in DOMAIN last.log[j].args : last.log[j].args[i].k # "class"

\* the bindings declared on a class and the method names they bind
Bindings(class) ==
  {getRefMetadata(refMetadataStore, class)[i] :
     i \in DOMAIN getRefMetadata(refMetadataStore, class)}
BoundNames(class) == {b.methodName : b \in Bindings(class)}

\* m(x) called on what resolve(Target) returns in the current state and
\* awaited: through the get trap when resolve returns a wrapper
DirectCall(c, Target, m, x) ==
  LET r == Resolve(Ctx(c), Target, FALSE, TRUE)
  IN IF r.kind = "return" /\ r.val.k = "inst" /\ IsFunction(Member(r.val, m))
     THEN IF Member(r.val, m).k = "redirector"
          THEN SettledOrPending(
                 RedirectFinish(EvalThunk(r.st, r.val.refs[m], m), r.val.refs[m],
                                m, x, r.val.refs[m].classRef.yields))
          ELSE Outcome(MethodBody(r.st, r.val, m, x))
     ELSE [kind |-> "none", val |-> Undef, err |-> ""]

\* C5: given a binding (Owner, "foo", thunk returning Target, "bar"), the
\* outcome of foo(x) on a resolved Owner equals the outcome of bar(x) on a
\* freshly resolved Target instance, for every x: the same value when it
\* succeeds, the same failure when it is rejected.
C5_RedirectEqualsTargetCall ==
  \A b \in Bindings("Facade") :
    (/\ last.op \in {"invoke", "resume"}
     /\ last.val.k = "inst" /\ last.val.c = "Facade"
     /\ last.prop = b.methodName
     /\ b.targetMethodName # ""
     /\ b.classRef.yields.k = "class"
     /\ last.out.kind \in {"fulfilled", "rejected"}
     /\ DirectCall(last.cont, b.classRef.yields.c, b.targetMethodName, last.arg).kind
          # "none")
    => last.out =
         DirectCall(last.cont, b.classRef.yields.c, b.targetMethodName, last.arg)

C5_Witness ==
  /\ last.op = "invoke"
  /\ last.prop = "foo"
  /\ last.arg = "x"
  /\ last.out.kind = "fulfilled"
  /\ last.out.val.c = "Leaf"
  /\ last.out.val.m = "bar"

\* C6: on a wrapped instance, reading a member whose name is not a bound
\* method name returns the member of the underlying instance, and the read
\* evaluates no thunk, resolves nothing and leaves the registry alone.
C6_UnboundMemberPassesThrough ==
  [][(/\ last'.op = "get"
      /\ held.k = "inst" /\ held.proxy
      /\ last'.prop \notin BoundNames(held.c))
       => /\ last'.out.val = TargetMember(held, last'.prop)
          /\ last'.log = <<>>
          /\ services' = services
          /\ pending' = pending]_vars

C6_Witness ==
  /\ last.op = "get"
  /\ last.prop = "own"
  /\ held.k = "inst" /\ held.proxy
  /\ last.out.val = [k |-> "method", c |-> "Facade", m |-> "own"]

\* the identities of the instances constructed during an operation
Constructed(log) == {log[j].val.id : j \in {i \in News(log) : log[i].val.k = "inst"}}

\* C7 as stated: every resolve of a class that is stored as itself, whatever
\* its flags, returns when it returns an instance constructed by that call,
\* distinct from every instance that existed before it and from every other
\* instance the call constructed, so that two resolves of the class return
\* two distinct instances; ProxyFactory.execute runs on such a new instance.
C7_ResolveReturnsFreshInstance ==
  [][(last'.op \in {"resolve", "execute"} /\ last' # last)
       => /\ Constructed(last'.log) \cap LiveIds = {}
          /\ Cardinality(Constructed(last'.log))
               = Cardinality({i \in News(last'.log) : last'.log[i].val.k = "inst"})
          /\ (/\ last'.op = "resolve"
              /\ last'.id \in DOMAIN services[last'.cont]
              /\ services[last'.cont][last'.id] = Cls(last'.id)
              /\ last'.out.kind = "return")
               => /\ last'.out.val.k = "inst"
                  /\ last'.out.val.id \in Constructed(last'.log)
          /\ \A j \in DOMAIN last'.log :
               (last'.op = "execute" /\ last'.log[j].e = "call")
                 => last'.log[j].val.id \in Constructed(last'.log)]_vars

\* C8: a symbol registered with register(token, v) resolves to v itself, at
\* the root and nested, with and without useMocked, also when v is null or
\* undefined; v is not constructed and not treated as a class.
C8_TokenReturnedVerbatim ==
  \A j \in DOMAIN last.log :
    (/\ IsSymbol(last.log[j].id)
     /\ last.log[j].id \in DOMAIN Reg(last.cont)
     /\ Reg(last.cont)[last.log[j].id] \in TokenValues)
    => /\ last.log[j].e \in {"resolve", "resolved"}
       /\ last.log[j].e = "resolved" => last.log[j].val = Reg(last.cont)[last.log[j].id]
       /\ (last.op = "resolve" /\ last.id = last.log[j].id)
            => (last.out.kind = "return" /\ last.out.val = Reg(last.cont)[last.id]
                /\ Len(last.log) = 2)

C8_Witness ==
  /\ last.op = "resolve"
  /\ last.id = "Service"
  /\ ~last.useMocked
  /\ "Env" \in DOMAIN Reg("A")
  /\ Reg("A")["Env"] = Undef
  /\ last.out.val.k = "inst"
  /\ last.out.val.args[1] = Undef
  /\ last.out.val.args[3].args[1] = Undef

\* the resolve call a constructor invocation belongs to
StartOf(log, j) ==
  CHOOSE i \in 1..(j - 1) :
    /\ log[i].e = "resolve" /\ log[i].d = log[j].d
    /\ \A i2 \in (i + 1)..(j - 1) : ~(log[i2].e = "resolve" /\ log[i2].d = log[j].d)
\* the returns of the resolves of its dependencies
DepReturns(log, j) ==
  {k \in (StartOf(log, j) + 1)..(j - 1) :
     log[k].e = "resolved" /\ log[k].d = log[j].d + 1}
Nth(S, n) == CHOOSE k \in S : Cardinality({m \in S : m < k}) = n - 1

\* C9: the constructor of a class with DEPS [A, B, C] is called once per
\* resolve of the class, after its dependencies have been resolved, with the
\* values those resolves returned, in the order of DEPS; at every depth.
C9_ConstructorArgumentsInOrder ==
  \A j \in News(last.log) :
    LET log == last.log
        deps == DEPS(log[j].id)
        R == DepReturns(log, j)
    IN /\ log[StartOf(log, j)].id = log[j].id
       /\ Cardinality(R) = Len(deps)
       /\ Len(log[j].args) = Len(deps)
       /\ \A n \in 1..Len(deps) :
            /\ log[Nth(R, n)].id = deps[n]
            /\ log[Nth(R, n)].val = log[j].args[n]
       /\ \A j2 \in News(log) :
            (log[j2].d = log[j].d /\ StartOf(log, j2) = StartOf(log, j)) => j2 = j
       /\ log[j].val.k = "inst" => log[j].val.args = log[j].args

C9_Witness ==
  /\ last.op = "resolve"
  /\ last.id = "Service"
  /\ ~last.useMocked
  /\ last.out.val.k = "inst"
  /\ last.out.val.args[1] = Obj("dev")
  /\ last.out.val.args[2].k = "inst" /\ last.out.val.args[2].c = "Leaf"
  /\ last.out.val.args[3].k = "inst" /\ last.out.val.args[3].c = "Config"
  /\ last.out.val.args[3].args[1] = Obj("dev")
  /\ last.out.val.args[3].args[2].k = "inst"

RECURSIVE Satisfiable(_, _)
\* a dependency that a nested resolve can supply: a registered symbol, a
\* class stored with a falsy value (the nested resolve returns null and the
\* enclosing constructor gets it), or a class, registered as itself or not
\* registered, whose constructor does not throw and whose own dependencies
\* are satisfiable
Satisfiable(svc, id) ==
  IF IsSymbol(id)
  THEN id \in DOMAIN svc
  ELSE IF id \in DOMAIN svc /\ ~Truthy(svc[id])
  THEN TRUE
  ELSE /\ id \in DOMAIN svc => svc[id] = Cls(id)
       /\ ~CtorThrows(id)
       /\ \A i \in DOMAIN DEPS(id) : Satisfiable(svc, DEPS(id)[i])

\* C10: when a registered class is resolved with useMocked = false and its
\* DEPS name a class that is not registered and has satisfiable dependencies,
\* the nested resolve registers that class as its own descriptor and the
\* resolve succeeds with a constructed instance in the place of the class.
C10_NestedMissAutoRegisters ==
  [][(/\ last'.op = "resolve" /\ ~last'.useMocked /\ last' # last
      /\ last'.id \in Classes
      /\ last'.id \in DOMAIN services[last'.cont]
      /\ services[last'.cont][last'.id] = Cls(last'.id)
      /\ ~CtorThrows(last'.id)
      /\ \A i \in DOMAIN DEPS(last'.id) :
           Satisfiable(services[last'.cont], DEPS(last'.id)[i]))
       => \A i \in DOMAIN DEPS(last'.id) :
            LET dep == DEPS(last'.id)[i]
            IN (dep \in Classes /\ dep \notin DOMAIN services[last'.cont])
                 => /\ last'.out.kind = "return"
                    /\ last'.out.val.k = "inst"
                    /\ dep \in DOMAIN services'[last'.cont]
                    /\ services'[last'.cont][dep] = Cls(dep)
                    /\ last'.out.val.args[i].k = "inst"
                    /\ last'.out.val.args[i].c = dep]_vars

C10_Witness ==
  /\ last.op = "resolve"
  /\ last.id = "Config"
  /\ ~last.useMocked /\ last.isFirst
  /\ last.out.val.k = "inst"
  /\ last.out.val.args[2].k = "inst" /\ last.out.val.args[2].c = "Leaf"
  /\ "Leaf" \notin explicit["A"]
  /\ "Leaf" \in DOMAIN Reg("A")
  /\ Reg("A")["Leaf"] = Cls("Leaf")

\* C11: clear() leaves the registry empty, whatever it held (registered,
\* mocked or auto-registered entries); a root resolve of an identifier that
\* was a key before the clear returns null right after it, constructs nothing
\* and adds nothing, and keeps returning null while the identifier has not
\* entered the registry again.
C11_ClearEmptiesRegistry ==
  [][/\ (last'.op = "clear" /\ last' # last)
          => /\ services'[last'.cont] = EmptyMap
             /\ last'.val.ids = DOMAIN services[last'.cont]
     /\ (last.op = "clear" /\ last'.op = "resolve" /\ last'.isFirst
           /\ last'.id \in last.val.ids)
          => /\ last'.out.kind = "return" /\ last'.out.val = Null
             /\ News(last'.log) = {}
             /\ services'[last'.cont] = EmptyMap
     /\ (last'.op = "resolve" /\ last'.isFirst /\ last' # last
           /\ last'.id \notin DOMAIN services[last'.cont])
          => /\ last'.out.kind = "return" /\ last'.out.val = Null
             /\ services' = services]_vars

C11_Witness ==
  /\ last.op = "clear"
  /\ {"Env", "Leaf", "Config"} \subseteq last.val.ids
  /\ "Leaf" \notin explicit[last.cont]
  /\ Reg(last.cont) = EmptyMap

\* C12 as stated: registerMock accepts every identifier that register accepts;
\* in particular registerMock(token, v) on a symbol returns normally and
\* leaves token -> v in the registry.
C12_RegisterMockAcceptsWhatRegisterAccepts ==
  [][(/\ last'.op = "registerMock"
      /\ RegisterOp(services[last'.cont], last'.id, last'.val).kind = "return")
       => /\ last'.out.kind = "return"
          /\ last'.id \in DOMAIN services'[last'.cont]
          /\ services'[last'.cont][last'.id] = last'.val]_vars

\* the evaluations of a thunk in a trace
Thunks(log) == {i \in DOMAIN log : log[i].e = "thunk"}

\* C13: no thunk is evaluated by attaching the bindings, by register,
\* registerMock or clear, by resolving and wrapping the owner or by reading a
\* member; a call of a bound method evaluates the thunk of that method
\* exactly once, as its first step.  An owner whose bindings hold thunks that
\* fail is therefore registered and resolved without error.
C13_ThunkEvaluatedOnlyByCall ==
  /\ last.op \notin {"invoke", "resume"} => Thunks(last.log) = {}
  /\ last.op \in {"invoke", "resume"}
       => /\ Thunks(last.log) = {1}
          /\ last.log[1].id = last.prop
          /\ last.log[1].val = last.val.refs[last.prop].classRef.yields
  /\ \A i \in DOMAIN pending :
       /\ Thunks(pending[i].log) = {1}
       /\ pending[i].log[1].id = pending[i].prop
  /\ (last.op = "register" /\ last.id = "Facade") => last.out.kind = "return"
  /\ (/\ last.op = "resolve" /\ last.id = "Facade"
      /\ "Facade" \in DOMAIN Reg(last.cont)
      /\ Reg(last.cont)["Facade"] = Cls("Facade")
      /\ ~(last.useMocked /\ ~last.isFirst))
       => (last.out.kind = "return" /\ last.out.val.k = "inst" /\ last.out.val.proxy)

C13_Witness ==
  /\ last.op = "invoke"
  /\ last.prop = "thr"
  /\ last.out.kind = "rejected"
  /\ last.out.err = "Error in classRef"
  /\ held.k = "inst" /\ held.proxy
  /\ "thr" \in DOMAIN held.refs

\* C14 as stated: the step in which the caller invokes a bound method ends
\* with the call suspended on the result of the thunk, whether the thunk is
\* synchronous or not: the target is not resolved, nothing is constructed and
\* no target method runs inside that step.
C14_InvokeStepNeverResolvesTarget ==
  last.op = "invoke"
    => \A i \in DOMAIN last.log : last.log[i].e \notin {"resolve", "new", "call"}

\* C15: when the thunk of the invoked binding yields null or undefined, the
\* call is rejected with the error of a missing class; the resolver is not
\* called, nothing is constructed, no method runs and the registry is as it
\* was before the call.
C15_FalsyThunkRejectsBeforeResolve ==
  [][(/\ last'.op \in {"invoke", "resume"}
      /\ last'.out.kind # "pending"
      /\ ~Truthy(last'.val.refs[last'.prop].classRef.yields))
       => /\ last'.out.kind = "rejected"
          /\ last'.out.err = "No class returned from @Ref"
          /\ \A i \in DOMAIN last'.log :
               last'.log[i].e \notin {"resolve", "new", "notctor", "call"}
          /\ services' = services]_vars

C15_Witness ==
  /\ last.op = "invoke"
  /\ last.prop = "nul"
  /\ last.out.kind = "rejected"
  /\ last.out.err = "No class returned from @Ref"
  /\ DOMAIN Reg(last.cont) = {"Facade"}

\* the names under which an instance has a callable member
CallableNames(inst) == Methods(inst.c) \cup DOMAIN inst.refs

\* C16: when the instance the resolver returns for the target has no
\* callable member under the effective method name, the call is rejected
\* with the error of a missing method, and no method runs: neither one of
\* the target nor the placeholder of the owner.
C16_MissingTargetMethodRejects ==
  \A i \in DOMAIN last.log :
    (/\ last.op \in {"invoke", "resume"}
     /\ last.log[i].e = "resolved" /\ last.log[i].d = 0
     /\ last.log[i].val.k = "inst"
     /\ EffectiveMethodName(last.val.refs[last.prop], last.prop)
          \notin CallableNames(last.log[i].val))
    => /\ last.out.kind = "rejected"
       /\ last.out.err = "Method not found in referenced class"
       /\ \A j \in DOMAIN last.log : last.log[j].e # "call"

C16_Witness ==
  /\ last.op = "invoke"
  /\ last.prop = "qux"
  /\ last.out.kind = "rejected"
  /\ last.out.err = "Method not found in referenced class"
  /\ \E j \in News(last.log) : last.log[j].val.k = "inst" /\ last.log[j].val.c = "Leaf"

\* the method calls of a trace
Calls(log) == {i \in DOMAIN log : log[i].e = "call"}

\* C17: a call of a method bound without a target method name runs the
\* member of the same name on the resolved target; a call of a method bound
\* with a target method name runs the member of that name, also when the
\* target has a member of the source name as well.  No other method runs.
C17_DefaultTargetNameIsSourceName ==
  \A b \in Bindings("Facade") :
    LET n == IF b.targetMethodName = "" THEN b.methodName ELSE b.targetMethodName
    IN (/\ last.op \in {"invoke", "resume"}
        /\ last.val.c = "Facade"
        /\ last.prop = b.methodName)
       => /\ \A j \in Calls(last.log) :
               /\ last.log[j].id = n
               /\ last.log[j].val.c = b.classRef.yields.c
          /\ \A i \in DOMAIN last.log :
               (/\ last.log[i].e = "resolved" /\ last.log[i].d = 0
                /\ last.log[i].val.k = "inst"
                /\ n \in CallableNames(last.log[i].val))
               => \E j \in Calls(last.log) : j > i /\ last.log[j].val = last.log[i].val

C17_Witness ==
  /\ last.op = "resume"
  /\ last.prop = "baz"
  /\ last.out.kind = "fulfilled"
  /\ last.out.val.c = "Leaf"
  /\ last.out.val.m = "baz"

\* the constructions of a trace that threw: a constructor body that throws,
\* or `new` applied to something that is not a constructor
FailedNews(log) ==
  {i \in DOMAIN log :
     \/ log[i].e = "notctor"
     \/ log[i].e = "new" /\ log[i].val = Undef}

\* C18 as stated: when a construction throws during a resolve, at whatever
\* depth, the resolve called by the user throws ResolutionError; the failure
\* is logged once and nothing happens after it: no dependency that comes
\* later in an enclosing DEPS is resolved and no enclosing class is
\* constructed.
C18_ConstructionFailurePropagates ==
  last.op = "resolve"
    => /\ \A i \in FailedNews(last.log) :
            /\ last.out.kind = "throw"
            /\ last.out.err = ResolutionError
            /\ Len(last.log) = i + 1
            /\ last.log[i + 1].e = "logerror"
       /\ last.out.kind = "throw" => FailedNews(last.log) # {}

\* the tokens in the dependency list of a class that register has never stored
MissingTokens(c, class) ==
  {DEPS(class)[i] : i \in DOMAIN DEPS(class)} \cap (Symbols \ explicit[c])

\* C19 as stated, for the default flags: every root resolve of a class that
\* is registered as itself and whose DEPS hold a token never stored by
\* register throws ResolutionError, and the class is not constructed.
C19_MissingTokenAlwaysFails ==
  (/\ last.op = "resolve" /\ last.isFirst /\ ~last.useMocked
   /\ last.id \in Classes
   /\ last.id \in DOMAIN Reg(last.cont)
   /\ Reg(last.cont)[last.id] = Cls(last.id)
   /\ MissingTokens(last.cont, last.id) # {})
    => /\ last.out.kind = "throw"
       /\ last.out.err = ResolutionError
       /\ \A j \in News(last.log) : last.log[j].id # last.id

\* the steps of a trace that belong to the resolution of the target
ResolveSteps(log) ==
  {i \in DOMAIN log : log[i].e \in {"resolve", "resolved", "new", "notctor"}}

\* C20: in the trace of one redirected call the thunk is evaluated before
\* the resolver is entered, and the target method is called after the
\* resolver has returned the instance it is called on; a call that is
\* suspended on its thunk has resolved nothing yet.
C20_ThunkThenResolveThenInvoke ==
  /\ last.op \in {"invoke", "resume"}
       => /\ \A i \in ResolveSteps(last.log) : \E t \in Thunks(last.log) : t < i
          /\ \A j \in Calls(last.log) :
               /\ \A i \in ResolveSteps(last.log) : i < j
               /\ \E i \in ResolveSteps(last.log) :
                    /\ last.log[i].e = "resolved" /\ last.log[i].d = 0
                    /\ last.log[i].val = last.log[j].val
          /\ last.out.kind = "pending" => ResolveSteps(last.log) \cup Calls(last.log) = {}
  /\ \A i \in DOMAIN pending :
       ResolveSteps(pending[i].log) \cup Calls(pending[i].log) = {}

C20_Witness ==
  /\ last.op = "resume"
  /\ last.prop = "baz"
  /\ Len(last.log) = 5
  /\ last.log[1].e = "thunk"
  /\ last.log[2].e = "resolve" /\ last.log[2].id = "Leaf"
  /\ last.log[3].e = "new"
  /\ last.log[4].e = "resolved"
  /\ last.log[5].e = "call" /\ last.log[5].val = last.log[4].val

\* the outcome of an asynchronous call without the identities of the
\* instances constructed for it
ShapeOfOutcome(o) == [kind |-> o.kind, val |-> Shape(o.val), err |-> o.err]

\* C21 as stated: of two redirected calls that are suspended at the same
\* time, each ends as it would end if it ran alone, whichever of them runs
\* on first.
C21_ConcurrentCallsIndependent ==
  \A i \in DOMAIN pending : \A j \in DOMAIN pending \ {i} :
    LET c == pending[j].inst.cont
        alone == ResumeOn(pending[j], services[c])
        first == ResumeOn(pending[i], services[c])
        after == ResumeOn(pending[j], first.st.svc)
    IN ShapeOfOutcome(after) = ShapeOfOutcome(alone)

\* C22 as stated, for redirected calls: a call that is suspended is
\* eventually settled, fulfilled or rejected.
C22_EveryCallCompletes == (pending # <<>>) ~> (pending = <<>>)

\* C23: a register, registerMock, resolve or clear on one container leaves
\* the registry of every other container as it was, and a root resolve of an
\* identifier that only another container has returns null.
C23_ContainersIndependent ==
  [][/\ \A c \in Containers \ {last'.cont} : services'[c] = services[c]
     /\ (/\ last'.op = "resolve"
         /\ last'.isFirst
         /\ ~Has(services[last'.cont], last'.id)
         /\ \E d \in Containers \ {last'.cont} : Has(services[d], last'.id))
        => last'.out = [kind |-> "return", val |-> Null, err |-> ""]]_vars

C23_Witness ==
  /\ last.op = "resolve"
  /\ last.cont = "B"
  /\ last.isFirst
  /\ last.out.val = Null
  /\ Has(services["A"], last.id)
  /\ ~Has(services["B"], last.id)
  /\ Has(services["B"], "Env")
  /\ ~Has(services["A"], "Env")

\* the binding of source name n that was attached to the class last
LastBinding(class, n) ==
  LET refs == getRefMetadata(refMetadataStore, class)
      is == {i \in DOMAIN refs : refs[i].methodName = n}
  IN refs[CHOOSE i \in is : \A j \in is : j <= i]

\* C24: every binding attached to a type is kept, also several of one source
\* name; a call of a bound method on a wrapped instance evaluates the thunk
\* and runs the target method of the binding of that name attached last, and
\* every source name that has a binding is redirected.
C24_LastBindingOfANameWins ==
  /\ Len(getRefMetadata(refMetadataStore, "Twice")) = Len(TwiceRefs)
  /\ (held # Null /\ held.c = "Twice")
       => \A n \in BoundNames("Twice") : Member(held, n).k = "redirector"
  /\ (last.op = "invoke" /\ last.val.c = "Twice")
       => LET b == LastBinding("Twice", last.prop)
              m == IF b.targetMethodName = "" THEN last.prop ELSE b.targetMethodName
          IN /\ \A i \in Thunks(last.log) : last.log[i].val = b.classRef.yields
             /\ \A j \in Calls(last.log) : last.log[j].id = m
             /\ last.out.kind = "fulfilled" => last.out.val.m = m

C24_Witness ==
  /\ last.op = "invoke"
  /\ last.val.c = "Twice"
  /\ last.prop = "dup"
  /\ last.out.kind = "fulfilled"
  /\ last.out.val.m = "baz"
  /\ Calls(last.log) # {}

\* C25 as stated: when the descriptor of a class is a truthy value that is
\* not a constructor, a nested resolve with useMocked returns that value, and
\* a resolve with any other flags throws 'Unable to resolve service'.
C25_OverlayOnlyForNestedMocked ==
  (/\ last.op = "resolve"
   /\ ~IsSymbol(last.id)
   /\ Has(services[last.cont], last.id)
   /\ Truthy(services[last.cont][last.id])
   /\ services[last.cont][last.id].k # "class")
  => IF last.useMocked /\ ~last.isFirst
     THEN last.out = [kind |-> "return", val |-> services[last.cont][last.id], err |-> ""]
     ELSE last.out.kind = "throw" /\ last.out.err = ResolutionError

\* C26: when the descriptor stored for a class is null or undefined, resolve
\* returns null whatever useMocked and isFirstExecution are: it resolves no
\* dependency, constructs nothing, logs nothing and throws nothing.
C26_FalsyDescriptorResolvesToNull ==
  (/\ last.op = "resolve"
   /\ ~IsSymbol(last.id)
   /\ Has(services[last.cont], last.id)
   /\ services[last.cont][last.id] \in {Null, Undef})
  => /\ last.out = [kind |-> "return", val |-> Null, err |-> ""]
     /\ \A i \in DOMAIN last.log :
          /\ last.log[i].e \in {"resolve", "resolved"}
          /\ last.log[i].id = last.id

C26_Witness ==
  /\ last.op = "resolve"
  /\ last.id = "Config"
  /\ last.useMocked
  /\ ~last.isFirst
  /\ Has(services["A"], "Config")
  /\ services["A"]["Config"] = Undef
  /\ last.out.val = Null
  /\ Len(last.log) = 2

\* execute(clazz, input) started on container c whose registry is svc
ExecuteOn(c, svc, clazz, input) ==
  FactoryExecute([Ctx(c) EXCEPT !.svc = svc], clazz, input)

\* C27 as stated: execute of a command type that is not in the registry
\* rejects and registers nothing; execute of a registered command type that
\* resolves to an instance settles as execute(input) of that instance does;
\* and a call that fails leaves every call for another command type with the
\* outcome it would have had without it.
C27_ExecuteIsRootLookup ==
  \A X \in CmdIds \ Symbols : \A x \in Inputs :
    LET svc == services["A"]
        first == ExecuteOn("A", svc, X, x)
    IN /\ ~Has(svc, X) => first.kind = "rejected" /\ first.st.svc = svc
       /\ (Has(svc, X) /\ svc[X] = Cls(X) /\ Calls(first.st.log) # {})
            => \E j \in Calls(first.st.log) :
                 /\ first.st.log[j].id = "execute"
                 /\ first.st.log[j].val.c = X
                 /\ first.st.log[j].args = <<Obj(x)>>
                 /\ ShapeOfOutcome(first) =
                      ShapeOfOutcome(MethodBody(first.st, first.st.log[j].val, "execute", x))
       /\ first.kind = "rejected"
            => \A Y \in CmdIds \ (Symbols \cup {X}) : \A y \in Inputs :
                 ShapeOfOutcome(ExecuteOn("A", first.st.svc, Y, y)) =
                   ShapeOfOutcome(ExecuteOn("A", svc, Y, y))

\* C28: a register or registerMock of a class that returns leaves the
\* registry with the descriptor of this call under the class, the class
\* itself after register and the value given after registerMock, whatever
\* was stored under it before, and with every other entry as it was.
C28_LastRegistrationWins ==
  [][(/\ last'.op \in {"register", "registerMock"}
      /\ last' # last
      /\ ~IsSymbol(last'.id)
      /\ last'.out.kind = "return")
     => /\ DOMAIN services'[last'.cont] = DOMAIN services[last'.cont] \cup {last'.id}
        /\ services'[last'.cont][last'.id] =
             (IF last'.op = "register" THEN Cls(last'.id) ELSE last'.val)
        /\ \A x \in DOMAIN services[last'.cont] \ {last'.id} :
             services'[last'.cont][x] = services[last'.cont][x]]_vars

C28_Witness ==
  /\ last.op = "register"
  /\ last.id = "Leaf"
  /\ last.out.kind = "return"
  /\ services["A"]["Leaf"] = Cls("Leaf")
  /\ Has(services["A"], "Config")
  /\ services["A"]["Config"] = Obj("mock")
  /\ Has(services["A"], "Env")

\* the resolve calls a redirected call makes itself, as positions of its trace
TargetResolves(log) ==
  {i \in DOMAIN log : log[i].e = "resolve" /\ log[i].d = 0}

\* C29: every resolve a redirected call makes for its target has
\* useMocked = false and isFirstExecution = false, however the owner was
\* resolved; the object a target method runs on is an instance built by that
\* resolve, never a value stored with registerMock; and a target that was
\* not in the registry is in it afterwards, stored as itself.
C29_TargetResolvedWithoutOverlay ==
  [][(last'.op \in {"invoke", "resume"} /\ last' # last)
     => /\ \A i \in TargetResolves(last'.log) :
             /\ last'.log[i].val = [k |-> "flags", useMocked |-> FALSE, isFirst |-> FALSE]
             /\ Has(services'[last'.cont], last'.log[i].id)
             /\ services'[last'.cont][last'.log[i].id] =
                  (IF Has(services[last'.cont], last'.log[i].id)
                   THEN services[last'.cont][last'.log[i].id]
                   ELSE Cls(last'.log[i].id))
        /\ \A j \in Calls(last'.log) :
             /\ last'.log[j].val.k = "inst"
             /\ \E n \in DOMAIN last'.log :
                  /\ n < j
                  /\ last'.log[n].e = "new"
                  /\ last'.log[n].val = last'.log[j].val]_vars

C29_Witness ==
  /\ last.op = "invoke"
  /\ last.prop = "foo"
  /\ TargetResolves(last.log) # {}
  /\ services["A"]["Leaf"] = Obj("mock")
  /\ last.out.kind = "rejected"
  /\ last.out.err = ResolutionError
  /\ Calls(last.log) = {}

\* the error a redirected call of binding b fails with first, read from what
\* the call did.  The binding at work is that of the last thunk the call
\* evaluated (the call may have been passed on to a bound method of its
\* target).  The error is the thunk's own error, the missing class, the
\* error of the target method, the resolver's error for the target or for
\* one of its dependencies at any depth, the error the resolver's handler
\* throws on a stored value it cannot serialise, the property read on a
\* target that resolved to null, or the missing method
OriginalError(b, log) ==
  LET thunks == {i \in DOMAIN log : log[i].e = "thunk"}
      yields == IF thunks = {} THEN b.classRef.yields
                ELSE log[CHOOSE i \in thunks : \A j \in thunks : j <= i].val
  IN IF yields.k = "throws" THEN {"Error in classRef"}
     ELSE IF ~Truthy(yields) THEN {"No class returned from @Ref"}
     ELSE IF Calls(log) # {} THEN {"Error in " \o log[CHOOSE j \in Calls(log) : TRUE].id}
     ELSE IF \E i \in DOMAIN log : log[i].e = "logerror" /\ log[i].id \in Ids
     THEN {ResolutionError}
     ELSE IF \E i \in DOMAIN log : log[i].e = "notctor" /\ StringifyThrows(log[i].val)
     THEN {SerializationError}
     ELSE IF \E i \in DOMAIN log :
               log[i].e = "resolved" /\ log[i].d = 0 /\ log[i].val.k # "inst"
     THEN {"TypeError"}
     ELSE {"Method not found in referenced class"}

\* C30 as stated: a call of a bound method returns a promise, and when the
\* call fails the promise is rejected with the error that made it fail.
C30_FailuresAreRejectionsWithOriginalError ==
  (/\ last.op \in {"invoke", "resume"}
   /\ last.val.c = "Risky")
  => /\ last.out.kind \in {"pending", "fulfilled", "rejected"}
     /\ last.out.kind = "rejected"
          => last.out.err \in OriginalError(last.val.refs[last.prop], last.log)

\* C31: no step of a redirected call, fulfilled, rejected or still under
\* way, runs the body a wrapped instance's own class declares under a bound
\* source name, also when the target of the binding is the owner class.
C31_PlaceholderBodyNeverRuns ==
  (last.op \in {"invoke", "resume"})
  => \A j \in Calls(last.log) :
       ~(/\ last.log[j].val.proxy
         /\ last.log[j].id \in BoundNames(last.log[j].val.c))

C31_Witness ==
  /\ last.op = "resume"
  /\ last.val.c = "Loop"
  /\ last.prop = "spin"
  /\ last.out.kind = "pending"
  /\ \E i \in DOMAIN last.log :
       /\ last.log[i].e = "resolved"
       /\ last.log[i].val.k = "inst"
       /\ last.log[i].val.c = "Loop"
       /\ last.log[i].val.proxy

\* v is a redirecting wrapper
IsWrapper(v) == v.k = "inst" /\ v.proxy

\* the resolve call traced in log constructed v itself
BuiltBy(log, v) ==
  /\ v.k = "inst"
  /\ \E i \in DOMAIN log :
       /\ log[i].e = "new" /\ log[i].d = 0
       /\ log[i].val.k = "inst" /\ log[i].val.id = v.id

\* C32: a step that is not the application of a Ref decorator (register,
\* resolve, clear, reading a member, a redirected call or its continuation)
\* leaves the binding store as it was, and the instance a resolve
\* constructs redirects exactly the names the store binds for its class at
\* that moment, as the last binding of each name says; so with no binding
\* attached in between, an instance resolved after a clear and a new
\* registration redirects as one resolved before.
C32_BindingStoreImmutable ==
  [][/\ last'.op # "ref" => refMetadataStore' = refMetadataStore
     /\ (/\ last'.op = "resolve" /\ last' # last
         /\ last'.out.kind = "return"
         /\ BuiltBy(last'.log, last'.out.val))
          => /\ last'.out.val.proxy
                  = (getRefMetadata(refMetadataStore, last'.id) # <<>>)
             /\ last'.out.val.proxy
                  => last'.out.val.refs
                       = refMethodsMap(getRefMetadata(refMetadataStore, last'.id))]_vars

C32_Witness ==
  /\ last.op = "resolve"
  /\ last.id = "Facade"
  /\ last.out.val.k = "inst"
  /\ held.k = "inst"
  /\ held.c = "Facade"
  /\ held.id # last.out.val.id
  /\ "own" \in DOMAIN held.refs
  /\ held.refs = last.out.val.refs
  /\ ~Has(services["A"], "Leaf")
  /\ "Leaf" \in explicit["A"]

\* C33: what resolve returns is a redirecting wrapper exactly when the call
\* constructed it and its class has a binding; an instance of a class
\* without bindings has no redirected name, and a token value, an overlay
\* value or null is returned as stored, none of them a wrapper.
C33_WrappedIffConstructedWithBindings ==
  (last.op = "resolve" /\ last.out.kind = "return")
  => LET v == last.out.val
     IN /\ IsWrapper(v) <=> (BuiltBy(last.log, v) /\ BoundNames(v.c) # {})
        /\ (v.k = "inst" /\ BoundNames(v.c) = {}) => v.refs = EmptyMap
        /\ ~BuiltBy(last.log, v)
             => /\ v.k # "inst"
                /\ v = Null \/ (Has(services[last.cont], last.id)
                                /\ v = services[last.cont][last.id])

C33_Witness ==
  /\ last.op = "resolve"
  /\ last.id = "Facade"
  /\ last.out.kind = "return"
  /\ IsWrapper(last.out.val)
  /\ DOMAIN last.out.val.refs = BoundNames("Facade")
  /\ Has(services["A"], "Leaf")
  /\ services["A"]["Leaf"] = Obj("mock")
  /\ Has(services["A"], "Env")

\* C34: a resolve with isFirstExecution = true of an identifier, class or
\* symbol, that the registry does not hold returns null, and the registry
\* after the call is the registry before it, entry for entry.
C34_RootMissLeavesRegistryUnchanged ==
  [][(/\ last'.op = "resolve"
      /\ last' # last
      /\ last'.isFirst
      /\ ~Has(services[last'.cont], last'.id))
     => /\ last'.out = [kind |-> "return", val |-> Null, err |-> ""]
        /\ services' = services]_vars

C34_Witness ==
  /\ last.op = "resolve"
  /\ last.isFirst
  /\ last.id = "Config"
  /\ last.out.val = Null
  /\ DOMAIN services["A"] = {"Env", "Leaf"}

\* C35 as stated: a resolve that throws 'Unable to resolve service' leaves
\* the registry as it was before the call.
C35_FailedResolveLeavesRegistryUnchanged ==
  [][(/\ last'.op = "resolve"
      /\ last' # last
      /\ last'.out.kind = "throw"
      /\ last'.out.err = ResolutionError)
     => services' = services]_vars

\* C36 as stated: the resolve call that has just ended, made once more with
\* the same identifier and flags on the container as it is now, ends the
\* same way: null again, the same error again, or an instance of the same
\* class built from the same dependency values.
C36_ResolveRepeatable ==
  (last.op = "resolve")
  => ShapeOfOutcome(Resolve(Ctx(last.cont), last.id, last.useMocked, last.isFirst))
       = ShapeOfOutcome(last.out)

\* C37 as stated: in every reachable state, every class the registry of a
\* container stores as its own descriptor has an array as its static DEPS.
C37_StoredClassesHaveDeps ==
  \A c \in Containers : \A id \in DOMAIN services[c] :
    (~IsSymbol(id) /\ services[c][id] = Cls(id)) => HasDepsArray(id)

\* C38: the instance a redirected call runs its target method on was
\* constructed by that call and is none of the instances that exist when the
\* call resolves it: not the target of the call before it, not the wrapped
\* instance of a call that is still suspended, not an instance the caller
\* holds.
C38_EachCallOwnTargetInstance ==
  [][(last'.op \in {"invoke", "resume"} /\ last' # last)
     => \A j \in Calls(last'.log) :
          /\ last'.log[j].val.k = "inst"
          /\ last'.log[j].val.id \in Constructed(last'.log)
          /\ last'.log[j].val.id \notin LiveIds]_vars

C38_Witness ==
  /\ last.op = "resume"
  /\ last.out.kind = "fulfilled"
  /\ Calls(last.log) # {}
  /\ pending # <<>>
  /\ pending[1].prop = last.prop
  /\ pending[1].inst = last.val

\* C39: when a suspended call runs on, what it does is decided by the entry
\* the registry holds for its target at that moment: an overlay object
\* makes it fail with the resolver's error, a null or undefined descriptor
\* makes it fail on the missing instance, and with the target stored as
\* itself or not stored at all the target is constructed and stored as
\* itself afterwards, so that a call that runs on over an empty registry
\* leaves exactly its target in it.
C39_ResumeReadsCurrentRegistry ==
  [][(/\ last'.op = "resume"
      /\ last' # last
      /\ last'.val.c = "Facade"
      /\ last'.val.refs[last'.prop].classRef.yields.k = "class")
     => LET svc == services[last'.cont]
            T == last'.val.refs[last'.prop].classRef.yields.c
        IN /\ (Has(svc, T) /\ svc[T].k = "obj")
                => /\ last'.out.kind = "rejected"
                   /\ last'.out.err = ResolutionError
                   /\ services' = services
           /\ (Has(svc, T) /\ svc[T] \in {Null, Undef})
                => /\ last'.out.kind = "rejected"
                   /\ Calls(last'.log) = {}
                   /\ services' = services
           /\ (~Has(svc, T) \/ svc[T] = Cls(T))
                => /\ last'.out.kind = "fulfilled"
                   /\ last'.out.val.c = T
                   /\ DOMAIN services'[last'.cont] = DOMAIN svc \cup {T}
                   /\ services'[last'.cont][T] = Cls(T)]_vars

C39_Witness ==
  /\ last.op = "resume"
  /\ last.prop = "baz"
  /\ last.out.kind = "fulfilled"
  /\ held.c = "Facade"
  /\ services["A"] = [x \in {"Leaf"} |-> Cls("Leaf")]
  /\ "Leaf" \notin explicit["A"]


====
